---------------------------- MODULE Spec2Model ----------------------------
(***************************************************************************)
(* noisypi: the switch-driven effect controller of noisebox.py.            *)
(*                                                                         *)
(* Threads of the program:                                                 *)
(*   - one callback thread per physical input (lightsaber switch, blinky   *)
(*     switch, disco switch); the callbacks of one input run one after the *)
(*     other, the callbacks of different inputs run concurrently;          *)
(*   - one thread per threading.Timer armed by *_schedule_stop;            *)
(*   - one thread per Thread(target=_lightsaber_glow) started by           *)
(*     lightsaber_open.                                                    *)
(* A step of the model is the code between two points where the thread can *)
(* be suspended for an observable time: a callback being invoked, a        *)
(* sleep(), the timer's wait, a call into the audio mixer.                 *)
(*                                                                         *)
(* Intensities are integers: the value i stands for led.value = i / steps. *)
(* The source ramps in steps = 100 hundredths; the number of steps per     *)
(* element is fixed by the initial state so that the same actions run at   *)
(* the source's resolution and at a reduced one.                           *)
(***************************************************************************)
EXTENDS Integers, Sequences, FiniteSets, TLC

VARIABLES
    steps,              \* ramp steps per LED (100 in the source)
    maxPause,           \* upper end of randint(1, 20), in tenths of a second
    history,            \* whether the glow threads' step history is recorded
    budget,             \* signals each input may still deliver
    lastSig,            \* history: the last signal each input delivered
    repeat,             \* history: that signal repeated the one before it
    bounce,             \* history: the last activate arrived while the effect
                        \*   was active and its deferred stop was still pending
    LIGHTSABER_MODE,
    lightsaber_leds,    \* [1..NLEDS -> 0..steps]
    ls,                 \* the lightsaber switch's callback thread
    lightsaber_timers,  \* every Timer armed so far; the last one is
                        \*   _lightsaber_stop_timer
    glow,               \* every _lightsaber_glow thread started so far
    music,              \* pygame.mixer.music: the loaded track, and playing
    BLINKY_MODE,
    bl,                 \* the blinky switch's callback thread
    blinky_timers,      \* as lightsaber_timers, for _blinky_stop_timer
    blinky_led1,
    blinky_led2,
    ds,                 \* the disco switch's callback thread
    disco_leds,
    nOn,                \* history: turn-on sequences begun, per effect
    nOff,               \* history: turn-off sequences begun, per effect
    presses,            \* presses each one-shot button may still deliver
    blaster,            \* the blaster button's callback thread, with the
                        \*   LED writes of the call in progress
    blaster_leds,
    failOn,             \* history: turn-on sequences ended by an exception
    failOff,            \* history: turn-off sequences ended by an exception
    now,                \* datetime.now(), as a count of clock ticks
    TEST_MODE,          \* noisy_tester: gpiozero could not be imported
    main,               \* noisy_tester: where the main thread is
    APP,                \* noisy_tester: the app is mounted (APP is not None)
    switches,           \* noisy_tester: the ToggleSwitch widgets
    changed,            \* noisy_tester: Switch.Changed messages not yet handled
    gpio,               \* noisy_tester: the level of each input pin
    calls,              \* noisy_tester: closures handed to call_from_thread
    events,             \* noisy_tester: hardware events and twiddles still to come
    posted,             \* history: states passed to _set_switch_state_from_thread
    applied,            \* history: states assigned to switch.value by _do
    blocks,             \* component_tester: the ToggleBlock widgets
    indicators,         \* component_tester: the IndicatorBlock widgets
    raised,             \* component_tester: a call has raised an exception
    requests            \* component_tester: presses and requests still to come

cfgVars == <<steps, maxPause, history>>
envVars == <<budget, lastSig, repeat, bounce>>
lsVars  == <<LIGHTSABER_MODE, lightsaber_leds, ls, lightsaber_timers, glow>>
blVars  == <<BLINKY_MODE, bl, blinky_timers, blinky_led1, blinky_led2>>
dsVars  == <<ds, disco_leds>>
cntVars == <<nOn, nOff>>
osVars  == <<presses, blaster, blaster_leds>>
faultVars == <<failOn, failOff>>
effectVars == <<cfgVars, envVars, lsVars, blVars, dsVars, music, cntVars>>
\* noisy_tester.py and component_tester.py are programs of their own.
ntVars  == <<TEST_MODE, main, APP, switches, changed, gpio, calls, events, posted, applied>>
ctVars  == <<blocks, indicators, raised, requests>>
uiVars  == <<now, ntVars, ctVars>>
\* What no callback, timer or glow step of the three switches touches.
otherVars == <<osVars, faultVars, uiVars>>
vars    == <<cfgVars, envVars, lsVars, blVars, dsVars, music, cntVars, otherVars>>

---------------------------------------------------------------------------
(* Bounds of the model *)

Steps == 2            \* ramp steps per LED in the reduced model
MaxPause == 1         \* pause choices of the glow loop in the reduced model
LsSignals == 3        \* signals of the lightsaber switch
BlSignals == 3        \* signals of the blinky switch
DsSignals == 2        \* signals of the disco switch
FairSignals == 2      \* signals of one switch when its threads run fairly
PairSignals == 2      \* activations of each of two effects run together
AllSignals == 2       \* signals per input when all inputs run together
OsSignals == 2        \* signals of the blinky switch run with the one-shot buttons
OsPresses == 1        \* presses of each one-shot button
FaultSignals == 2     \* signals of one switch when steps may raise
MaxFaults == 1        \* steps that raise in one run
MaxClock == 2         \* ticks of the clock
TesterEvents == 3     \* hardware events, or twiddles, of noisy_tester
Requests == 3         \* presses and indicator requests of component_tester
RampSignals == 2      \* signals of the lightsaber at the source's resolution
CoupledSignals == 2   \* signals of the lightsaber switch run with the disco switch

(* Program constants *)

NLEDS == 3            \* len(lightsaber_leds)
GLOW_FLOOR == 80      \* range(80, 100): the glow's lowest intensity, in percent
BLASTER_PULSES == 10  \* for _ in range(10)
RAMP_STEPS == 100     \* range(1, 101), range(100, 0, -1)
GLOW_PAUSES == 20     \* randint(1, 20)

Inputs  == {"ls", "bl", "disco"}
Effects == {"ls", "bl"}
Buttons == {"scream", "blaster"}

---------------------------------------------------------------------------
(* threading.Timer *)

NewTimer == [st |-> "waiting", k |-> 0, i |-> 0]

\* Timer.is_alive(): the thread has been started and has not returned.
IsAlive(tm) == tm.st \notin {"cancelled", "done"}

\* A deferred stop that has not started: armed, its wait neither cancelled
\* nor over.
IsPending(tm) == tm.st = "waiting"

\* A cancel that stops any live timer, also one already running its function.
CancelAlive(tm) ==
    IF tm.st \notin {"cancelled", "done"} THEN [st |-> "cancelled", k |-> 0, i |-> 0]
    ELSE tm

\* Timer.cancel() sets the timer's finished event: a timer still in its
\* wait then returns without calling its function; one past the wait is
\* unaffected.
Cancel(tm) == IF tm.st = "waiting" THEN [tm EXCEPT !.st = "cancelled"] ELSE tm

\* A schedule or activate that leaves the previous timer running.
KeepLatest(timers) == timers

\* if _x_stop_timer and _x_stop_timer.is_alive(): _x_stop_timer.cancel()
CancelLatest(timers) ==
    IF timers # <<>> /\ IsAlive(timers[Len(timers)])
    THEN [timers EXCEPT ![Len(timers)] = Cancel(@)]
    ELSE timers

PendingStop(timers) == timers # <<>> /\ IsPending(timers[Len(timers)])

---------------------------------------------------------------------------
(* Signals: gpiozero invoking a callback on the input's thread *)

Deliver(in, kind) ==
    /\ budget[in] > 0
    /\ budget' = [budget EXCEPT ![in] = @ - 1]
    /\ lastSig' = [lastSig EXCEPT ![in] = kind]
    /\ repeat' = [repeat EXCEPT ![in] = (lastSig[in] = kind)]

---------------------------------------------------------------------------
(* Lightsaber: the switch's callback thread *)

\* lightsaber_switch.when_activated = lightsaber_open: the callback is invoked.
lightsaber_switch_activated ==
    /\ ls.pc = "idle"
    /\ Deliver("ls", "on")
    /\ bounce' = [bounce EXCEPT
                    !["ls"] = LIGHTSABER_MODE /\ PendingStop(lightsaber_timers)]
    /\ ls' = [ls EXCEPT !.pc = "open_cancel"]
    /\ UNCHANGED <<cfgVars, otherVars, LIGHTSABER_MODE, lightsaber_leds, lightsaber_timers,
                   glow, blVars, dsVars, music, cntVars>>

\* lightsaber_open, lines 84-88: cancel the pending stop; return if already on.
lightsaber_open_begin ==
    /\ ls.pc = "open_cancel"
    /\ lightsaber_timers' = CancelLatest(lightsaber_timers)
    /\ ls' = [ls EXCEPT !.pc = IF LIGHTSABER_MODE THEN "idle" ELSE "open_sound"]
    /\ UNCHANGED <<cfgVars, otherVars, envVars, LIGHTSABER_MODE, lightsaber_leds, glow,
                   blVars, dsVars, music, cntVars>>

\* lines 90-92: the turn-on sequence begins: onset sound, load the hum.
\* music.load stops a track that is playing.
lightsaber_open_sound ==
    /\ ls.pc = "open_sound"
    /\ nOn' = [nOn EXCEPT !["ls"] = @ + 1]
    /\ music' = [track |-> "hum", playing |-> FALSE]
    /\ ls' = [ls EXCEPT !.pc = "open_play"]
    /\ UNCHANGED <<cfgVars, otherVars, envVars, LIGHTSABER_MODE, lightsaber_leds,
                   lightsaber_timers, glow, blVars, dsVars, nOff>>

\* line 93: music.play(-1) loops whatever track is loaded by now.
lightsaber_open_play ==
    /\ ls.pc = "open_play"
    /\ music' = [music EXCEPT !.playing = TRUE]
    /\ ls' = [pc |-> "open_ramp", k |-> 1, i |-> 1]
    /\ UNCHANGED <<cfgVars, otherVars, envVars, LIGHTSABER_MODE, lightsaber_leds,
                   lightsaber_timers, glow, blVars, dsVars, cntVars>>

\* lines 96-99: for led in lightsaber_leds: for i in range(1, 101):
\*                  led.value = i / 100; sleep(...)
lightsaber_open_ramp ==
    /\ ls.pc = "open_ramp"
    /\ lightsaber_leds' = [lightsaber_leds EXCEPT ![ls.k] = ls.i]
    /\ ls' = IF ls.i < steps THEN [ls EXCEPT !.i = @ + 1]
             ELSE IF ls.k < NLEDS THEN [ls EXCEPT !.k = @ + 1, !.i = 1]
             ELSE [pc |-> "open_finish", k |-> 0, i |-> 0]
    /\ UNCHANGED <<cfgVars, otherVars, envVars, LIGHTSABER_MODE, lightsaber_timers, glow,
                   blVars, dsVars, music, cntVars>>

\* lines 101-102: LIGHTSABER_MODE = True; Thread(target=_lightsaber_glow).start()
lightsaber_open_finish ==
    /\ ls.pc = "open_finish"
    /\ LIGHTSABER_MODE' = TRUE
    /\ glow' = Append(glow, [st |-> "check", i |-> 0, p |-> 0, late |-> 0])
    /\ ls' = [ls EXCEPT !.pc = "idle"]
    /\ UNCHANGED <<cfgVars, otherVars, envVars, lightsaber_leds, lightsaber_timers,
                   blVars, dsVars, music, cntVars>>

\* lightsaber_switch.when_deactivated = lightsaber_schedule_stop: invoked.
lightsaber_switch_deactivated ==
    /\ ls.pc = "idle"
    /\ Deliver("ls", "off")
    /\ bounce' = [bounce EXCEPT !["ls"] = FALSE]
    /\ ls' = [ls EXCEPT !.pc = "schedule"]
    /\ UNCHANGED <<cfgVars, otherVars, LIGHTSABER_MODE, lightsaber_leds, lightsaber_timers,
                   glow, blVars, dsVars, music, cntVars>>

\* A schedule_stop that creates the Timer and never starts it.
lightsaber_schedule_unstarted ==
    /\ ls.pc = "schedule"
    /\ lightsaber_timers' = CancelLatest(lightsaber_timers)
    /\ ls' = [ls EXCEPT !.pc = "idle"]
    /\ UNCHANGED <<cfgVars, otherVars, envVars, LIGHTSABER_MODE, lightsaber_leds, glow,
                   blVars, dsVars, music, cntVars>>

\* lightsaber_schedule_stop, lines 141-145: cancel a live timer, arm a new one.
lightsaber_schedule_stop ==
    /\ ls.pc = "schedule"
    /\ lightsaber_timers' = Append(CancelLatest(lightsaber_timers), NewTimer)
    /\ ls' = [ls EXCEPT !.pc = "idle"]
    /\ UNCHANGED <<cfgVars, otherVars, envVars, LIGHTSABER_MODE, lightsaber_leds, glow,
                   blVars, dsVars, music, cntVars>>

---------------------------------------------------------------------------
(* Lightsaber: the Timer threads running _lightsaber_stop *)

\* Timer.run: the wait of GRACE_PERIOD is over and the finished event is not
\* set: the timer is committed to calling _lightsaber_stop.
lightsaber_timer_fire(t) ==
    /\ lightsaber_timers[t].st = "waiting"
    /\ lightsaber_timers' = [lightsaber_timers EXCEPT ![t].st = "fired"]
    /\ UNCHANGED <<cfgVars, otherVars, envVars, LIGHTSABER_MODE, lightsaber_leds, ls, glow,
                   blVars, dsVars, music, cntVars>>

\* A stop without the test of line 122: it runs the turn-off sequence whatever
\* the flag is.
lightsaber_stop_unguarded(t) ==
    /\ lightsaber_timers[t].st = "fired"
    /\ LIGHTSABER_MODE' = FALSE
    /\ nOff' = [nOff EXCEPT !["ls"] = @ + 1]
    /\ lightsaber_timers' = [lightsaber_timers EXCEPT ![t].st = "audio"]
    /\ UNCHANGED <<cfgVars, otherVars, envVars, lightsaber_leds, ls, glow,
                   blVars, dsVars, music, nOn>>

\* _lightsaber_stop, lines 122-126: return if already off, else clear the
\* flag.  Two timers of one effect reach this point at least GRACE_PERIOD
\* apart (the second is armed after the first has fired), so the test and
\* the assignment of one are not separated by those of another.
lightsaber_stop_begin(t) ==
    /\ lightsaber_timers[t].st = "fired"
    /\ IF LIGHTSABER_MODE
       THEN /\ LIGHTSABER_MODE' = FALSE
            /\ nOff' = [nOff EXCEPT !["ls"] = @ + 1]
            /\ lightsaber_timers' = [lightsaber_timers EXCEPT ![t].st = "audio"]
       ELSE /\ lightsaber_timers' = [lightsaber_timers EXCEPT ![t].st = "done"]
            /\ UNCHANGED <<LIGHTSABER_MODE, nOff>>
    /\ UNCHANGED <<cfgVars, otherVars, envVars, lightsaber_leds, ls, glow,
                   blVars, dsVars, music, nOn>>

\* A turn-off that hands the music channel back to disco when disco is on.
lightsaber_stop_audio_resume(t) ==
    /\ lightsaber_timers[t].st = "audio"
    /\ music' = IF disco_leds THEN [track |-> "funk", playing |-> TRUE]
                ELSE [music EXCEPT !.playing = FALSE]
    /\ lightsaber_timers' = [lightsaber_timers EXCEPT
                               ![t] = [st |-> "ramp", k |-> NLEDS, i |-> steps]]
    /\ UNCHANGED <<cfgVars, otherVars, envVars, LIGHTSABER_MODE, lightsaber_leds, ls, glow,
                   blVars, dsVars, cntVars>>

\* lines 128-129: music.stop(); play the closing sound.
lightsaber_stop_audio(t) ==
    /\ lightsaber_timers[t].st = "audio"
    /\ music' = [music EXCEPT !.playing = FALSE]
    /\ lightsaber_timers' = [lightsaber_timers EXCEPT
                               ![t] = [st |-> "ramp", k |-> NLEDS, i |-> steps]]
    /\ UNCHANGED <<cfgVars, otherVars, envVars, LIGHTSABER_MODE, lightsaber_leds, ls, glow,
                   blVars, dsVars, cntVars>>

\* A ramp-down without the final write of line 135.
lightsaber_stop_ramp_no_zero(t) ==
    LET tm == lightsaber_timers[t] IN
    /\ tm.st = "ramp"
    /\ lightsaber_leds' = [lightsaber_leds EXCEPT ![tm.k] = IF tm.i > 0 THEN tm.i ELSE @]
    /\ lightsaber_timers' = [lightsaber_timers EXCEPT ![t] =
          IF tm.i > 0 THEN [tm EXCEPT !.i = @ - 1]
          ELSE IF tm.k > 1 THEN [tm EXCEPT !.k = @ - 1, !.i = steps]
          ELSE [st |-> "done", k |-> 0, i |-> 0]]
    /\ UNCHANGED <<cfgVars, otherVars, envVars, LIGHTSABER_MODE, ls, glow,
                   blVars, dsVars, music, cntVars>>

\* lines 131-135: for led in reversed(lightsaber_leds):
\*                    for i in range(100, 0, -1): led.value = i / 100; sleep(...)
\*                    led.value = 0
lightsaber_stop_ramp(t) ==
    LET tm == lightsaber_timers[t] IN
    /\ tm.st = "ramp"
    /\ lightsaber_leds' = [lightsaber_leds EXCEPT ![tm.k] = tm.i]
    /\ lightsaber_timers' = [lightsaber_timers EXCEPT ![t] =
          IF tm.i > 0 THEN [tm EXCEPT !.i = @ - 1]
          ELSE IF tm.k > 1 THEN [tm EXCEPT !.k = @ - 1, !.i = steps]
          ELSE [st |-> "done", k |-> 0, i |-> 0]]
    /\ UNCHANGED <<cfgVars, otherVars, envVars, LIGHTSABER_MODE, ls, glow,
                   blVars, dsVars, music, cntVars>>

---------------------------------------------------------------------------
(* Lightsaber: the _lightsaber_glow threads *)

\* range(80, 100) at the model's resolution
GlowLo == (GLOW_FLOOR * steps) \div 100
\* A glow that overshoots full intensity by one step.
GlowOver == steps + 1
GlowHi == steps

AllLeds(v) == [k \in 1..NLEDS |-> v]

\* History kept with each glow thread: the inner steps (writes of the LED
\* values) it has made since it last made one with LIGHTSABER_MODE true,
\* counted up to 2 (recorded in the specifications that set history, and
\* kept when the thread exits).
LateAfter(th) ==
    IF LIGHTSABER_MODE \/ ~history THEN 0
    ELSE IF th.late < 2 THEN th.late + 1 ELSE 2

\* line 107: while LIGHTSABER_MODE, tested when the thread starts and after
\* each pause.
lightsaber_glow_check(g) ==
    /\ glow[g].st = "check"
    /\ glow' = [glow EXCEPT ![g] =
                  IF LIGHTSABER_MODE
                  THEN [st |-> "up", i |-> GlowLo, p |-> 0, late |-> 0]
                  ELSE [st |-> "exited", i |-> 0, p |-> 0, late |-> glow[g].late]]
    /\ UNCHANGED <<cfgVars, otherVars, envVars, LIGHTSABER_MODE, lightsaber_leds, ls,
                   lightsaber_timers, blVars, dsVars, music, cntVars>>

\* lines 108-111: for i in range(80, 100): every led.value = i / 100; sleep
lightsaber_glow_up(g) ==
    /\ glow[g].st = "up"
    /\ lightsaber_leds' = AllLeds(glow[g].i)
    /\ glow' = [glow EXCEPT ![g] =
                  IF @.i + 1 < GlowHi
                  THEN [@ EXCEPT !.i = @ + 1, !.late = LateAfter(glow[g])]
                  ELSE [@ EXCEPT !.st = "down", !.i = GlowHi, !.late = LateAfter(glow[g])]]
    /\ UNCHANGED <<cfgVars, otherVars, envVars, LIGHTSABER_MODE, ls, lightsaber_timers,
                   blVars, dsVars, music, cntVars>>

\* lines 112-116: for i in range(100, 79, -1): every led.value = i / 100; sleep
\* and, after the last step, sleep(randint(1, 20) / 10)
lightsaber_glow_down(g) ==
    /\ glow[g].st = "down"
    /\ lightsaber_leds' = AllLeds(glow[g].i)
    /\ \/ /\ glow[g].i > GlowLo
          /\ glow' = [glow EXCEPT ![g].i = @ - 1, ![g].late = LateAfter(glow[g])]
       \/ /\ glow[g].i = GlowLo
          /\ \E p \in 1..maxPause :
                glow' = [glow EXCEPT ![g] =
                           [st |-> "check", i |-> 0, p |-> p, late |-> LateAfter(glow[g])]]
    /\ UNCHANGED <<cfgVars, otherVars, envVars, LIGHTSABER_MODE, ls, lightsaber_timers,
                   blVars, dsVars, music, cntVars>>

---------------------------------------------------------------------------
(* Blinky *)

\* blinky_switch.when_activated = blinky_start: the callback is invoked.
blinky_switch_activated ==
    /\ bl = "idle"
    /\ Deliver("bl", "on")
    /\ bounce' = [bounce EXCEPT
                    !["bl"] = BLINKY_MODE /\ PendingStop(blinky_timers)]
    /\ bl' = "start_cancel"
    /\ UNCHANGED <<cfgVars, otherVars, lsVars, BLINKY_MODE, blinky_timers, blinky_led1,
                   blinky_led2, dsVars, music, cntVars>>

\* blinky_start, lines 154-158: cancel the pending stop; return if already on.
blinky_start_begin ==
    /\ bl = "start_cancel"
    /\ blinky_timers' = CancelLatest(blinky_timers)
    /\ bl' = IF BLINKY_MODE THEN "idle" ELSE "start_on"
    /\ UNCHANGED <<cfgVars, otherVars, envVars, lsVars, BLINKY_MODE, blinky_led1,
                   blinky_led2, dsVars, music, cntVars>>

\* A blinky_start that keeps its state in the lightsaber's flag as well.
blinky_start_on_shared ==
    /\ bl = "start_on"
    /\ nOn' = [nOn EXCEPT !["bl"] = @ + 1]
    /\ BLINKY_MODE' = TRUE
    /\ LIGHTSABER_MODE' = TRUE
    /\ blinky_led1' = "blink"
    /\ bl' = "start_led2"
    /\ UNCHANGED <<cfgVars, otherVars, envVars, lightsaber_leds, ls, lightsaber_timers, glow,
                   blinky_timers, blinky_led2, dsVars, music, nOff>>

\* lines 160-163: BLINKY_MODE = True; blinky_led1.blink(); sleep(1)
blinky_start_on ==
    /\ bl = "start_on"
    /\ nOn' = [nOn EXCEPT !["bl"] = @ + 1]
    /\ BLINKY_MODE' = TRUE
    /\ blinky_led1' = "blink"
    /\ bl' = "start_led2"
    /\ UNCHANGED <<cfgVars, otherVars, envVars, lsVars, blinky_timers, blinky_led2,
                   dsVars, music, nOff>>

\* line 164: blinky_led2.blink()
blinky_start_led2 ==
    /\ bl = "start_led2"
    /\ blinky_led2' = "blink"
    /\ bl' = "idle"
    /\ UNCHANGED <<cfgVars, otherVars, envVars, lsVars, BLINKY_MODE, blinky_timers,
                   blinky_led1, dsVars, music, cntVars>>

\* blinky_switch.when_deactivated = blinky_schedule_stop: invoked.
blinky_switch_deactivated ==
    /\ bl = "idle"
    /\ Deliver("bl", "off")
    /\ bounce' = [bounce EXCEPT !["bl"] = FALSE]
    /\ bl' = "schedule"
    /\ UNCHANGED <<cfgVars, otherVars, lsVars, BLINKY_MODE, blinky_timers, blinky_led1,
                   blinky_led2, dsVars, music, cntVars>>

\* blinky_schedule_stop, lines 180-184
blinky_schedule_stop ==
    /\ bl = "schedule"
    /\ blinky_timers' = Append(CancelLatest(blinky_timers), NewTimer)
    /\ bl' = "idle"
    /\ UNCHANGED <<cfgVars, otherVars, envVars, lsVars, BLINKY_MODE, blinky_led1,
                   blinky_led2, dsVars, music, cntVars>>

\* Timer.run for a blinky timer: committed to calling _blinky_stop.
blinky_timer_fire(t) ==
    /\ blinky_timers[t].st = "waiting"
    /\ blinky_timers' = [blinky_timers EXCEPT ![t].st = "fired"]
    /\ UNCHANGED <<cfgVars, otherVars, envVars, lsVars, BLINKY_MODE, bl, blinky_led1,
                   blinky_led2, dsVars, music, cntVars>>

\* _blinky_stop, lines 169-173: return if already off, else clear the flag
\* (atomic for the reason given at lightsaber_stop_begin).
blinky_stop_begin(t) ==
    /\ blinky_timers[t].st = "fired"
    /\ IF BLINKY_MODE
       THEN /\ BLINKY_MODE' = FALSE
            /\ nOff' = [nOff EXCEPT !["bl"] = @ + 1]
            /\ blinky_timers' = [blinky_timers EXCEPT ![t].st = "leds"]
       ELSE /\ blinky_timers' = [blinky_timers EXCEPT ![t].st = "done"]
            /\ UNCHANGED <<BLINKY_MODE, nOff>>
    /\ UNCHANGED <<cfgVars, otherVars, envVars, lsVars, bl, blinky_led1, blinky_led2,
                   dsVars, music, nOn>>

\* lines 174-175: blinky_led1.off(); blinky_led2.on()
blinky_stop_leds(t) ==
    /\ blinky_timers[t].st = "leds"
    /\ blinky_led1' = "off"
    /\ blinky_led2' = "on"
    /\ blinky_timers' = [blinky_timers EXCEPT ![t].st = "done"]
    /\ UNCHANGED <<cfgVars, otherVars, envVars, lsVars, BLINKY_MODE, bl, dsVars, music,
                   cntVars>>

---------------------------------------------------------------------------
(* Disco *)

\* disco_switch.when_activated = disco_start: the callback is invoked.
disco_switch_activated ==
    /\ ds = "idle"
    /\ Deliver("disco", "on")
    /\ ds' = "start_load"
    /\ UNCHANGED <<cfgVars, otherVars, bounce, lsVars, blVars, disco_leds, music, cntVars>>

\* disco_start, line 205: music.load(starwars_funk)
disco_start_load ==
    /\ ds = "start_load"
    /\ music' = [track |-> "funk", playing |-> FALSE]
    /\ ds' = "start_play"
    /\ UNCHANGED <<cfgVars, otherVars, envVars, lsVars, blVars, disco_leds, cntVars>>

\* line 206: music.play(-1)
disco_start_play ==
    /\ ds = "start_play"
    /\ music' = [music EXCEPT !.playing = TRUE]
    /\ ds' = "start_leds"
    /\ UNCHANGED <<cfgVars, otherVars, envVars, lsVars, blVars, disco_leds, cntVars>>

\* line 207: disco_leds.on()
disco_start_leds ==
    /\ ds = "start_leds"
    /\ disco_leds' = TRUE
    /\ ds' = "idle"
    /\ UNCHANGED <<cfgVars, otherVars, envVars, lsVars, blVars, music, cntVars>>

\* disco_switch.when_deactivated = disco_stop: invoked.
disco_switch_deactivated ==
    /\ ds = "idle"
    /\ Deliver("disco", "off")
    /\ ds' = "stop_music"
    /\ UNCHANGED <<cfgVars, otherVars, bounce, lsVars, blVars, disco_leds, music, cntVars>>

\* disco_stop, line 212: music.stop()
disco_stop_music ==
    /\ ds = "stop_music"
    /\ music' = [music EXCEPT !.playing = FALSE]
    /\ ds' = "stop_leds"
    /\ UNCHANGED <<cfgVars, otherVars, envVars, lsVars, blVars, disco_leds, cntVars>>

\* line 213: disco_leds.off()
disco_stop_leds ==
    /\ ds = "stop_leds"
    /\ disco_leds' = FALSE
    /\ ds' = "stop_check"
    /\ UNCHANGED <<cfgVars, otherVars, envVars, lsVars, blVars, music, cntVars>>

\* A disco_stop that restarts the hum without looking at LIGHTSABER_MODE.
disco_stop_check_always ==
    /\ ds = "stop_check"
    /\ ds' = "stop_load"
    /\ UNCHANGED <<cfgVars, otherVars, envVars, lsVars, blVars, disco_leds, music, cntVars>>

\* line 214: if LIGHTSABER_MODE:
disco_stop_check ==
    /\ ds = "stop_check"
    /\ ds' = IF LIGHTSABER_MODE THEN "stop_load" ELSE "idle"
    /\ UNCHANGED <<cfgVars, otherVars, envVars, lsVars, blVars, disco_leds, music, cntVars>>

\* line 215: music.load(lightsaber_hum_sound)
disco_stop_load ==
    /\ ds = "stop_load"
    /\ music' = [track |-> "hum", playing |-> FALSE]
    /\ ds' = "stop_play"
    /\ UNCHANGED <<cfgVars, otherVars, envVars, lsVars, blVars, disco_leds, cntVars>>

\* line 216: music.play(-1)
disco_stop_play ==
    /\ ds = "stop_play"
    /\ music' = [music EXCEPT !.playing = TRUE]
    /\ ds' = "idle"
    /\ UNCHANGED <<cfgVars, otherVars, envVars, lsVars, blVars, disco_leds, cntVars>>

---------------------------------------------------------------------------
(* One-shot triggers: the scream button and the blaster button *)

Press(b) ==
    /\ presses[b] > 0
    /\ presses' = [presses EXCEPT ![b] = @ - 1]

\* r2d2_scream_button.when_activated = r2d2_scream, lines 188-190: log and
\* play the scream; Sound.play returns at once and keeps no state.
r2d2_scream ==
    /\ Press("scream")
    /\ UNCHANGED <<effectVars, faultVars, uiVars, blaster, blaster_leds>>

\* blaster_button.when_activated = blaster_pew_pew, lines 193-195: the
\* callback is invoked, logs and plays the blaster sound.
blaster_button_activated ==
    /\ blaster.pc = "idle"
    /\ Press("blaster")
    /\ blaster' = [pc |-> "on", n |-> 0, ons |-> 0, offs |-> 0]
    /\ UNCHANGED <<effectVars, faultVars, uiVars, blaster_leds>>

\* lines 196-198: for _ in range(10): blaster_leds.on(); sleep(0.05)
blaster_on ==
    /\ blaster.pc = "on"
    /\ blaster_leds' = TRUE
    /\ blaster' = [blaster EXCEPT !.pc = "off", !.ons = @ + 1]
    /\ UNCHANGED <<effectVars, faultVars, uiVars, presses>>

\* A loop that makes one pulse fewer: range(9).
blaster_off_short ==
    /\ blaster.pc = "off"
    /\ blaster_leds' = FALSE
    /\ blaster' = [blaster EXCEPT
                     !.pc = IF blaster.n + 2 < BLASTER_PULSES THEN "on" ELSE "idle",
                     !.n = @ + 1, !.offs = @ + 1]
    /\ UNCHANGED <<effectVars, faultVars, uiVars, presses>>

\* lines 199-200: blaster_leds.off(); sleep(0.05); next pulse, or return
\* after the tenth.
blaster_off ==
    /\ blaster.pc = "off"
    /\ blaster_leds' = FALSE
    /\ blaster' = [blaster EXCEPT
                     !.pc = IF blaster.n + 1 < BLASTER_PULSES THEN "on" ELSE "idle",
                     !.n = @ + 1, !.offs = @ + 1]
    /\ UNCHANGED <<effectVars, faultVars, uiVars, presses>>

---------------------------------------------------------------------------
(* Exceptions: a mixer call, a Sound.play or a write of an LED raises.  No   *)
(* function of noisebox.py has a try statement: the exception ends the       *)
(* callback or the timer's function where it is raised.                      *)

FaultsLeft ==
    failOn["ls"] + failOn["bl"] + failOff["ls"] + failOff["bl"] < MaxFaults

\* lightsaber_open, lines 90-99: a step of the turn-on sequence raises; the
\* callback ends there, lines 101-102 are not reached.
lightsaber_open_fail ==
    /\ FaultsLeft
    /\ ls.pc \in {"open_sound", "open_play", "open_ramp"}
    /\ nOn' = [nOn EXCEPT !["ls"] = IF ls.pc = "open_sound" THEN @ + 1 ELSE @]
    /\ failOn' = [failOn EXCEPT !["ls"] = @ + 1]
    /\ ls' = [pc |-> "idle", k |-> 0, i |-> 0]
    /\ UNCHANGED <<cfgVars, envVars, LIGHTSABER_MODE, lightsaber_leds,
                   lightsaber_timers, glow, blVars, dsVars, music, nOff,
                   osVars, uiVars, failOff>>

\* A failed turn-off that puts the flag back.
lightsaber_stop_fail_restore(t) ==
    /\ FaultsLeft
    /\ lightsaber_timers[t].st \in {"audio", "ramp"}
    /\ LIGHTSABER_MODE' = TRUE
    /\ failOff' = [failOff EXCEPT !["ls"] = @ + 1]
    /\ lightsaber_timers' = [lightsaber_timers EXCEPT
                               ![t] = [st |-> "done", k |-> 0, i |-> 0]]
    /\ UNCHANGED <<cfgVars, envVars, lightsaber_leds, ls, glow,
                   blVars, dsVars, music, cntVars, osVars, uiVars, failOn>>

\* _lightsaber_stop, lines 128-135: a step after the flag has been cleared
\* raises; the timer thread ends there.
lightsaber_stop_fail(t) ==
    /\ FaultsLeft
    /\ lightsaber_timers[t].st \in {"audio", "ramp"}
    /\ failOff' = [failOff EXCEPT !["ls"] = @ + 1]
    /\ lightsaber_timers' = [lightsaber_timers EXCEPT
                               ![t] = [st |-> "done", k |-> 0, i |-> 0]]
    /\ UNCHANGED <<cfgVars, envVars, LIGHTSABER_MODE, lightsaber_leds, ls, glow,
                   blVars, dsVars, music, cntVars, osVars, uiVars, failOn>>

\* blinky_start: blinky_led1.blink() raises after line 161 has set the flag,
\* or blinky_led2.blink() raises at line 164.
blinky_start_fail ==
    /\ FaultsLeft
    /\ \/ /\ bl = "start_on"
          /\ BLINKY_MODE' = TRUE
          /\ nOn' = [nOn EXCEPT !["bl"] = @ + 1]
       \/ /\ bl = "start_led2"
          /\ UNCHANGED <<BLINKY_MODE, nOn>>
    /\ failOn' = [failOn EXCEPT !["bl"] = @ + 1]
    /\ bl' = "idle"
    /\ UNCHANGED <<cfgVars, envVars, lsVars, blinky_timers, blinky_led1,
                   blinky_led2, dsVars, music, nOff, osVars, uiVars, failOff>>

\* _blinky_stop, lines 174-175: an LED write raises after the flag has been
\* cleared.
blinky_stop_fail(t) ==
    /\ FaultsLeft
    /\ blinky_timers[t].st = "leds"
    /\ failOff' = [failOff EXCEPT !["bl"] = @ + 1]
    /\ blinky_timers' = [blinky_timers EXCEPT ![t].st = "done"]
    /\ UNCHANGED <<cfgVars, envVars, lsVars, BLINKY_MODE, bl, blinky_led1,
                   blinky_led2, dsVars, music, cntVars, osVars, uiVars, failOn>>

---------------------------------------------------------------------------
(* noisy_tester.py: the display of the switches.                            *)
(*                                                                          *)
(* Threads: the main thread, which imports the module and then runs the     *)
(* Textual app (mounting, message handlers, interval timers and the         *)
(* closures handed over by call_from_thread, one at a time); and one        *)
(* gpiozero callback thread per pin.  A timestamp is a set: {} is None,     *)
(* {t} is the datetime read at tick t.                                      *)

\* GPIO_ID_TABLE, lines 54-58, reduced to two of the five inputs.
Pins == {26, 19}
SwitchIds == {"lsswitch", "blinkyswitch"}
\* _pin_from_btn, lines 91-92: None for a button without a pin number.
NoPin == 0
GPIO_ID_TABLE == [p \in Pins |-> IF p = 26 THEN "lsswitch" ELSE "blinkyswitch"]

\* GPIO_ID_TABLE.get(_pin_from_btn(btn)): None for a pin that is not a key.
WidgetOf(pin) == IF pin \in Pins THEN GPIO_ID_TABLE[pin] ELSE "none"

\* datetime.now() moves on.
tick ==
    /\ now < MaxClock
    /\ now' = now + 1
    /\ UNCHANGED <<effectVars, osVars, faultVars, ntVars, ctVars>>

\* _set_switch_state_from_thread, lines 75-86, on callback thread t: nothing
\* while APP is None; otherwise the closure _do is handed to the main thread
\* and t blocks in call_from_thread until it has run.
set_switch_state_from_thread(t, widget_id, state) ==
    IF ~APP
    THEN UNCHANGED <<calls, posted>>
    ELSE /\ calls' = Append(calls, [wid |-> widget_id, state |-> state, thread |-> t])
         /\ posted' = [posted EXCEPT ![widget_id] = Append(@, state)]

\* Thread t is inside call_from_thread: its closure has not run yet.
Blocked(t) == \E c \in 1..Len(calls) : calls[c].thread = t

\* handle_gpio_on / handle_gpio_off, lines 95-104.
handle_gpio(t, pin, state) ==
    IF WidgetOf(pin) = "none"
    THEN UNCHANGED <<calls, posted>>
    ELSE set_switch_state_from_thread(t, WidgetOf(pin), state)

\* Lines 112-114, at import: handle_gpio_on(b) for every button whose
\* is_active is truthy.  With the Dummy classes is_active is a lambda (truthy)
\* and the pin is None; with gpiozero the pin is a key of the table and APP is
\* still None.
seed_initial_states ==
    /\ main = "seed"
    /\ main' = "mount"
    /\ UNCHANGED <<calls, posted>>
    /\ \A pin \in (IF TEST_MODE THEN {NoPin} ELSE {p \in Pins : gpio[p]}) :
          handle_gpio(pin, pin, TRUE)
    /\ UNCHANGED <<effectVars, osVars, faultVars, now, ctVars,
                   TEST_MODE, APP, switches, changed, gpio, events, applied>>

\* NoisyTesterApp.on_mount, lines 207-209: APP = self.
nt_on_mount ==
    /\ main = "mount"
    /\ main' = "run"
    /\ APP' = TRUE
    /\ UNCHANGED <<effectVars, osVars, faultVars, now, ctVars,
                   TEST_MODE, switches, changed, gpio, calls, events, posted, applied>>

\* when_activated / when_deactivated of one pin (lines 107-109): the input
\* changes its level and gpiozero calls the wrapper with the new level, once
\* the pin's previous callback has returned.
gpio_event(pin) ==
    /\ ~TEST_MODE
    /\ main # "seed"
    /\ events > 0
    /\ ~Blocked(pin)
    /\ events' = events - 1
    /\ gpio' = [gpio EXCEPT ![pin] = ~@]
    /\ handle_gpio(pin, pin, ~gpio[pin])
    /\ UNCHANGED <<effectVars, osVars, faultVars, now, ctVars,
                   TEST_MODE, APP, main, switches, changed, applied>>

\* _do, lines 80-84, run by the main thread for the oldest closure:
\* switch.value = state only for a switch that is not disabled; an assignment
\* that changes the value posts Switch.Changed.  The calling thread resumes.
do_call ==
    /\ main = "run"
    /\ calls # <<>>
    /\ LET c == Head(calls)
           switch == switches[c.wid]
       IN  IF ~switch.disabled
           THEN /\ switches' = [switches EXCEPT ![c.wid].value = c.state]
                /\ applied' = [applied EXCEPT ![c.wid] = Append(@, c.state)]
                /\ changed' = [changed EXCEPT ![c.wid] =
                                 IF switch.value # c.state
                                 THEN Append(@, c.state) ELSE @]
           ELSE UNCHANGED <<switches, applied, changed>>
    /\ calls' = Tail(calls)
    /\ UNCHANGED <<effectVars, osVars, faultVars, now, ctVars,
                   TEST_MODE, APP, main, gpio, events, posted>>

\* ToggleSwitch._demo_twiddle, lines 190-192, scheduled by on_mount in
\* TEST_MODE only (line 198): self.value = not self.value.
demo_twiddle(w) ==
    /\ TEST_MODE
    /\ main = "run"
    /\ events > 0
    /\ events' = events - 1
    /\ switches' = [switches EXCEPT ![w].value = ~@]
    /\ changed' = [changed EXCEPT ![w] = Append(@, ~switches[w].value)]
    /\ UNCHANGED <<effectVars, osVars, faultVars, now, ctVars,
                   TEST_MODE, APP, main, gpio, calls, posted, applied>>

\* _on_switch_changed, lines 285-287, and ToggleSwitch.toggle_action, lines
\* 185-187: _last_toggle = datetime.now(), whatever the new value is.
on_switch_changed(w) ==
    /\ main = "run"
    /\ changed[w] # <<>>
    /\ changed' = [changed EXCEPT ![w] = Tail(@)]
    /\ switches' = [switches EXCEPT ![w].last_toggle = {now}]
    /\ UNCHANGED <<effectVars, osVars, faultVars, now, ctVars,
                   TEST_MODE, APP, main, gpio, calls, events, posted, applied>>

\* ToggleSwitch.last_toggle_str, lines 171-175.
last_toggle_str(w) ==
    IF switches[w].last_toggle = {} THEN "never" ELSE "ago"

---------------------------------------------------------------------------
(* component_tester.py: toggle blocks and indicators.                       *)

\* Two of the default button names and two of the default indicator names
\* (lines 177-178); "Sw 7" is a name the interface does not have.
ButtonNames == {"Btn 1", "Btn 2"}
IndicatorNames == <<"Sw 1", "Sw 2">>
RequestNames == {"Sw 1", "Sw 2", "Sw 7"}

\* list.index: the position of the first equal element; 0 stands for the
\* ValueError the call raises when there is none.
index(names, x) ==
    IF \E i \in 1..Len(names) : names[i] = x
    THEN CHOOSE i \in 1..Len(names) :
            names[i] = x /\ \A j \in 1..(i - 1) : names[j] # x
    ELSE 0

\* ToggleBlock.on_button_pressed, lines 83-89.
on_button_pressed(b) ==
    /\ requests > 0
    /\ requests' = requests - 1
    /\ blocks' = [blocks EXCEPT
                    ![b].state = ~@,
                    ![b].stamp = IF ~blocks[b].state THEN {now} ELSE @,
                    ![b].ons = IF ~blocks[b].state THEN @ + 1 ELSE @]
    /\ UNCHANGED <<effectVars, osVars, faultVars, now, ntVars, indicators, raised>>

\* GPIOInterface.set_indicator, lines 207-210, called with a name:
\* IndicatorBlock.set (lines 120-124) on the block at the name's index; the
\* ValueError of list.index is not caught.
set_indicator(name, value) ==
    /\ requests > 0
    /\ requests' = requests - 1
    /\ LET idx == index(IndicatorNames, name)
       IN  IF idx = 0
           THEN /\ raised' = TRUE
                /\ UNCHANGED indicators
           ELSE /\ indicators' = [indicators EXCEPT ![idx] = value]
                /\ UNCHANGED raised
    /\ UNCHANGED <<effectVars, osVars, faultVars, now, ntVars, blocks>>

---------------------------------------------------------------------------
(* The state of an effect *)

Active(e) == IF e = "ls" THEN LIGHTSABER_MODE ELSE BLINKY_MODE
TimersOf(e) == IF e = "ls" THEN lightsaber_timers ELSE blinky_timers
ThreadIdle(e) == IF e = "ls" THEN ls.pc = "idle" ELSE bl = "idle"

\* The thread of e's switch is inside the turn-on sequence.
TurningOn(e) ==
    IF e = "ls" THEN ls.pc \in {"open_sound", "open_play", "open_ramp", "open_finish"}
    ELSE bl \in {"start_on", "start_led2"}

\* The timer is inside the turn-off sequence: the flag is cleared, the
\* audio and output steps are not all done.
TurningOff(tm) == tm.st \in {"audio", "ramp", "leds"}

\* The timer is past its wait and has not returned.
Fired(tm) == tm.st \in {"fired", "audio", "ramp", "leds"}

\* Nothing of effect e is in progress: its callback thread is idle and every
\* timer has been cancelled or has returned.
Quiet(e) ==
    /\ ThreadIdle(e)
    /\ \A t \in 1..Len(TimersOf(e)) : ~IsAlive(TimersOf(e)[t])

Running(g) == glow[g].st # "exited"

---------------------------------------------------------------------------
(* Specifications *)

\* The state after the module has been imported (lines 56-65): every effect
\* off, no timer, no glow thread, nothing loaded in the mixer.
StartState(n, pause, signals, h) ==
    /\ steps = n
    /\ maxPause = pause
    /\ history = h
    /\ budget = signals
    /\ lastSig = [in \in Inputs |-> "none"]
    /\ repeat = [in \in Inputs |-> FALSE]
    /\ bounce = [e \in Effects |-> FALSE]
    /\ LIGHTSABER_MODE = FALSE
    /\ lightsaber_leds = AllLeds(0)
    /\ ls = [pc |-> "idle", k |-> 0, i |-> 0]
    /\ lightsaber_timers = <<>>
    /\ glow = <<>>
    /\ music = [track |-> "none", playing |-> FALSE]
    /\ BLINKY_MODE = FALSE
    /\ bl = "idle"
    /\ blinky_timers = <<>>
    /\ blinky_led1 = "off"
    /\ blinky_led2 = "off"
    /\ ds = "idle"
    /\ disco_leds = FALSE
    /\ nOn = [e \in Effects |-> 0]
    /\ nOff = [e \in Effects |-> 0]
    /\ blaster = [pc |-> "idle", n |-> 0, ons |-> 0, offs |-> 0]
    /\ blaster_leds = FALSE
    /\ failOn = [e \in Effects |-> 0]
    /\ failOff = [e \in Effects |-> 0]

\* The one-shot buttons are not pressed.
NoPresses == presses = [b \in Buttons |-> 0]

\* noisy_tester.py before its import-time seeding (lines 14, 166-167, 265-269):
\* APP is None, every switch is off, disabled and has never been toggled.
NoisyTesterStart(test, levels, n) ==
    /\ TEST_MODE = test
    /\ main = "seed"
    /\ APP = FALSE
    /\ switches = [w \in SwitchIds |->
                     [value |-> FALSE, disabled |-> TRUE, last_toggle |-> {}]]
    /\ changed = [w \in SwitchIds |-> <<>>]
    /\ gpio = levels
    /\ calls = <<>>
    /\ events = n
    /\ posted = [w \in SwitchIds |-> <<>>]
    /\ applied = [w \in SwitchIds |-> <<>>]

\* component_tester.py once composed: every block off (line 70) with the
\* TimeLabel's default stamp, datetime.now() of the class definition (line
\* 49); every indicator off (line 111).
ComponentStart(n) ==
    /\ blocks = [b \in ButtonNames |-> [state |-> FALSE, stamp |-> {0}, ons |-> 0]]
    /\ indicators = [i \in 1..Len(IndicatorNames) |-> FALSE]
    /\ raised = FALSE
    /\ requests = n

\* The two testers are not run.
NoTesters ==
    /\ now = 0
    /\ NoisyTesterStart(FALSE, [p \in Pins |-> FALSE], 0)
    /\ ComponentStart(0)

\* noisebox.py is not run.
NoController ==
    /\ StartState(Steps, MaxPause, [in \in Inputs |-> 0], FALSE)
    /\ NoPresses

Start(n, pause, signals) ==
    StartState(n, pause, signals, FALSE) /\ NoPresses /\ NoTesters

LsOpen ==
    \/ lightsaber_open_begin
    \/ lightsaber_open_sound
    \/ lightsaber_open_play
    \/ lightsaber_open_ramp
    \/ lightsaber_open_finish

LsThread == LsOpen \/ lightsaber_schedule_stop

LsTimers ==
    \/ \E t \in 1..Len(lightsaber_timers) : lightsaber_timer_fire(t)
    \/ \E t \in 1..Len(lightsaber_timers) : lightsaber_stop_begin(t)
    \/ \E t \in 1..Len(lightsaber_timers) : lightsaber_stop_audio(t)
    \/ \E t \in 1..Len(lightsaber_timers) : lightsaber_stop_ramp(t)

LsGlow ==
    \/ \E g \in 1..Len(glow) : lightsaber_glow_check(g)
    \/ \E g \in 1..Len(glow) : lightsaber_glow_up(g)
    \/ \E g \in 1..Len(glow) : lightsaber_glow_down(g)

LsSignal == lightsaber_switch_activated \/ lightsaber_switch_deactivated

LsNext == LsSignal \/ LsThread \/ LsTimers \/ LsGlow

BlStart ==
    \/ blinky_start_begin
    \/ blinky_start_on
    \/ blinky_start_led2

BlThread == BlStart \/ blinky_schedule_stop

BlTimers ==
    \/ \E t \in 1..Len(blinky_timers) : blinky_timer_fire(t)
    \/ \E t \in 1..Len(blinky_timers) : blinky_stop_begin(t)
    \/ \E t \in 1..Len(blinky_timers) : blinky_stop_leds(t)

BlSignal == blinky_switch_activated \/ blinky_switch_deactivated

BlNext == BlSignal \/ BlThread \/ BlTimers

DsStart == disco_start_load \/ disco_start_play \/ disco_start_leds

DsStop ==
    \/ disco_stop_music
    \/ disco_stop_leds
    \/ disco_stop_check
    \/ disco_stop_load
    \/ disco_stop_play

DsSignal == disco_switch_activated \/ disco_switch_deactivated

DsNext == DsSignal \/ DsStart \/ DsStop

\* Every input together.
Init == Start(Steps, MaxPause, [in \in Inputs |-> AllSignals])
Next == LsNext \/ BlNext \/ DsNext
Spec == Init /\ [][Next]_vars

\* One stateful effect at a time: the signals of one switch, its callbacks,
\* its timers and (for the lightsaber) its glow threads.
InitEffect ==
    \E e \in Effects :
        Start(Steps, MaxPause,
              [in \in Inputs |-> CASE in # e -> 0
                                   [] in = "ls" -> LsSignals
                                   [] OTHER -> BlSignals])
EffectNext == LsNext \/ BlNext
SpecEffect == InitEffect /\ [][EffectNext]_vars

\* The callbacks and the timers are threads the interpreter keeps running:
\* a step of one of them that stays possible is eventually taken.  Nothing
\* obliges a switch to deliver a signal.
Internal == LsThread \/ LsTimers \/ BlThread \/ BlTimers
InitFair ==
    \E e \in Effects :
        Start(Steps, MaxPause, [in \in Inputs |-> IF in = e THEN FairSignals ELSE 0])
SpecEffectFair == InitFair /\ [][EffectNext]_vars /\ WF_vars(Internal)

\* The lightsaber alone, with the step history of its glow threads recorded.
InitGlow == StartState(Steps, MaxPause,
                       [in \in Inputs |-> IF in = "ls" THEN LsSignals ELSE 0], TRUE)
            /\ NoPresses /\ NoTesters
SpecGlow == InitGlow /\ [][LsNext]_vars

\* The one-shot buttons, with blinky running on its own threads.
OsNext == r2d2_scream \/ blaster_button_activated \/ blaster_on \/ blaster_off
InitOneShot ==
    /\ StartState(Steps, MaxPause,
                  [in \in Inputs |-> IF in = "bl" THEN OsSignals ELSE 0], FALSE)
    /\ presses = [b \in Buttons |-> OsPresses]
    /\ NoTesters
SpecOneShot == InitOneShot /\ [][BlNext \/ OsNext]_vars

\* One stateful effect whose side-effect steps may raise.
FaultNext ==
    \/ lightsaber_open_fail
    \/ \E t \in 1..Len(lightsaber_timers) : lightsaber_stop_fail(t)
    \/ blinky_start_fail
    \/ \E t \in 1..Len(blinky_timers) : blinky_stop_fail(t)
InitFault ==
    /\ \E e \in Effects :
          StartState(Steps, MaxPause,
                     [in \in Inputs |-> IF in = e THEN FaultSignals ELSE 0], FALSE)
    /\ NoPresses
    /\ NoTesters
SpecFault == InitFault /\ [][EffectNext \/ FaultNext]_vars

\* The lightsaber at the source's resolution (100 steps per LED, pauses of
\* 1..20 tenths), switched on and off with the switch left alone during each
\* transition: it is activated when the effect is at rest and off, and
\* deactivated when the effect is on.
ramp_activate ==
    /\ ~LIGHTSABER_MODE
    /\ Quiet("ls")
    /\ \A g \in 1..Len(glow) : ~Running(g)
    /\ lightsaber_switch_activated
ramp_deactivate ==
    /\ LIGHTSABER_MODE
    /\ lightsaber_switch_deactivated
RampNext == ramp_activate \/ ramp_deactivate \/ LsThread \/ LsTimers \/ LsGlow
InitRamp ==
    /\ StartState(RAMP_STEPS, GLOW_PAUSES,
                  [in \in Inputs |-> IF in = "ls" THEN RampSignals ELSE 0], TRUE)
    /\ NoPresses
    /\ NoTesters
SpecRamp == InitRamp /\ [][RampNext]_vars

\* The disco switch used freely while the lightsaber switch is left alone
\* during each of the lightsaber's transitions.
InitCoupled == Start(Steps, MaxPause,
                     [in \in Inputs |-> CASE in = "ls" -> CoupledSignals
                                          [] in = "disco" -> DsSignals
                                          [] OTHER -> 0])
SpecCoupled == InitCoupled /\ [][RampNext \/ DsNext]_vars

\* The lightsaber and the disco switch, which share the mixer's music channel.
InitDisco == Start(Steps, MaxPause,
                   [in \in Inputs |-> CASE in = "ls" -> LsSignals - 1
                                        [] in = "disco" -> DsSignals
                                        [] OTHER -> 0])
SpecDisco == InitDisco /\ [][LsNext \/ DsNext]_vars

\* Activations only, of the lightsaber and of blinky, on their two threads.
InitPair == Start(Steps, MaxPause,
                  [in \in Inputs |-> IF in \in Effects THEN PairSignals ELSE 0])
PairNext ==
    \/ lightsaber_switch_activated
    \/ LsOpen
    \/ LsGlow
    \/ blinky_switch_activated
    \/ BlStart
SpecPair == InitPair /\ [][PairNext]_vars /\ WF_vars(LsOpen) /\ WF_vars(BlStart)

\* noisy_tester.py, with gpiozero (hardware events) or without it (twiddles).
TesterNext ==
    \/ tick
    \/ seed_initial_states
    \/ nt_on_mount
    \/ \E pin \in Pins : gpio_event(pin)
    \/ do_call
    \/ \E w \in SwitchIds : demo_twiddle(w)
    \/ \E w \in SwitchIds : on_switch_changed(w)
InitTester ==
    /\ NoController
    /\ now = 0
    /\ \/ NoisyTesterStart(TRUE, [p \in Pins |-> FALSE], TesterEvents)
       \/ \E levels \in [Pins -> BOOLEAN] :
             NoisyTesterStart(FALSE, levels, TesterEvents)
    /\ ComponentStart(0)
SpecTester == InitTester /\ [][TesterNext]_vars

\* component_tester.py: presses of its buttons, requests for its indicators.
ComponentNext ==
    \/ tick
    \/ \E b \in ButtonNames : on_button_pressed(b)
    \/ \E name \in RequestNames, value \in BOOLEAN : set_indicator(name, value)
InitComponent ==
    /\ NoController
    /\ now = 0
    /\ NoisyTesterStart(FALSE, [p \in Pins |-> FALSE], 0)
    /\ ComponentStart(Requests)
SpecComponent == InitComponent /\ [][ComponentNext]_vars

---------------------------------------------------------------------------
(* Properties *)

\* C1: an effect that is active, receives deactivate and then activate while
\* the deferred stop is still pending, stays active and runs no step of the
\* turn-off sequence.
DebounceAbsorbsBounce ==
    \A e \in Effects :
        bounce[e] =>
            /\ Active(e)
            /\ ~TurningOff(TimersOf(e)[Len(TimersOf(e))])

\* C2: an activate that follows an activate with no deactivate between them
\* does not enter the turn-on sequence: it returns after cancelling the
\* pending stop.
RepeatedActivateIsNoOp ==
    \A e \in Effects :
        (lastSig[e] = "on" /\ repeat[e]) => ~TurningOn(e)

\* C3: when the last signal of an effect is deactivate, the effect comes to
\* rest (unless an activate follows), and at rest it is off with every
\* turn-on sequence matched by exactly one turn-off sequence.
DebounceTimeout ==
    /\ [](\A e \in Effects :
            (lastSig[e] = "off" /\ Quiet(e)) => (~Active(e) /\ nOff[e] = nOn[e]))
    /\ \A e \in Effects :
            (lastSig[e] = "off") ~> ((Quiet(e) /\ ~Active(e)) \/ lastSig[e] = "on")

DebounceTimeoutWitness ==
    /\ lastSig["ls"] = "off"
    /\ Quiet("ls")
    /\ nOn["ls"] = 1
    /\ nOff["ls"] = 1
    /\ ~LIGHTSABER_MODE

\* C4: a turn-on sequence and a turn-off sequence of the same effect are
\* never both in progress.
TransitionsSerialized ==
    \A e \in Effects :
        ~(TurningOn(e) /\ \E t \in 1..Len(TimersOf(e)) : TurningOff(TimersOf(e)[t]))

\* C5: at most one glow loop of the lightsaber is running.
AtMostOneGlowLoop ==
    Cardinality({g \in 1..Len(glow) : Running(g)}) <= 1

\* C6: a glow loop is running exactly when the lightsaber is active.
GlowIffActive ==
    (\E g \in 1..Len(glow) : Running(g)) <=> LIGHTSABER_MODE

\* C7: each effect has at most one deferred stop that has not started.
AtMostOnePendingStop ==
    \A e \in Effects :
        Cardinality({t \in 1..Len(TimersOf(e)) : IsPending(TimersOf(e)[t])}) <= 1

\* A second deactivate has cancelled the stop the first one armed and armed
\* its own.
PendingStopReplaced ==
    \E e \in Effects :
        /\ lastSig[e] = "off" /\ repeat[e]
        /\ Len(TimersOf(e)) >= 2
        /\ TimersOf(e)[Len(TimersOf(e)) - 1].st = "cancelled"
        /\ IsPending(TimersOf(e)[Len(TimersOf(e))])

TimerRank(tm) ==
    CASE tm.st = "waiting" -> 0
      [] tm.st = "fired" -> 1
      [] tm.st \in {"audio", "leds"} -> 2
      [] tm.st = "ramp" -> 3
      [] OTHER -> 4

\* The step is the cancel attempt of e's activate or deactivate callback.
CancelStep(e) ==
    IF e = "ls" THEN ls.pc \in {"open_cancel", "schedule"} /\ ls'.pc # ls.pc
    ELSE bl \in {"start_cancel", "schedule"} /\ bl' # bl

\* C8: a timer that has fired goes through its turn-off sequence once,
\* forwards, and no cancel stops it; a cancel attempt that finds no pending
\* stop changes no timer and no effect state.
FiredStopNotCancelled ==
    [][\A e \in Effects :
          /\ \A t \in 1..Len(TimersOf(e)) :
                LET old == TimersOf(e)[t]
                    new == TimersOf(e)'[t]
                IN  /\ Fired(old) => (new.st # "cancelled" /\ TimerRank(new) >= TimerRank(old))
                    /\ ~IsAlive(old) => new = old
          /\ (CancelStep(e) /\ ~PendingStop(TimersOf(e))) =>
                /\ SubSeq(TimersOf(e)', 1, Len(TimersOf(e))) = TimersOf(e)
                /\ UNCHANGED <<LIGHTSABER_MODE, BLINKY_MODE, lightsaber_leds,
                               blinky_led1, blinky_led2, music, glow, cntVars>>
      ]_vars

\* An activate has run its cancel while the latest timer was past its wait,
\* and that timer is going on with its turn-off sequence.
CancelAfterFire ==
    \E e \in Effects :
        /\ lastSig[e] = "on"
        /\ TurningOn(e)
        /\ TimersOf(e) # <<>>
        /\ TurningOff(TimersOf(e)[Len(TimersOf(e))])

DiscoStopping == ds \in {"stop_music", "stop_leds", "stop_check", "stop_load", "stop_play"}

ConcurrentActivations ==
    /\ [](/\ (lastSig["ls"] = "on" /\ ls.pc = "idle") => LIGHTSABER_MODE
          /\ (lastSig["bl"] = "on" /\ bl = "idle") => BLINKY_MODE)
    /\ [][lsVars' = lsVars \/ blVars' = blVars]_vars
    /\ (lastSig["ls"] = "on") ~> (ls.pc = "idle" /\ LIGHTSABER_MODE)
    /\ (lastSig["bl"] = "on") ~> (bl = "idle" /\ BLINKY_MODE)

\* Both turn-on sequences are in progress at once.
BothTurningOn == ls.pc = "open_ramp" /\ bl = "start_led2"

\* C13: a timer that fires while its effect's flag is false returns at once:
\* the step that takes it out of the fired state ends it and changes no flag,
\* no output, no music state, no glow thread and starts no turn-off sequence.
StopWhenOffIsNoOp ==
    [][\A e \in Effects : \A t \in 1..Len(TimersOf(e)) :
          (/\ TimersOf(e)[t].st = "fired"
           /\ ~Active(e)
           /\ TimersOf(e)'[t].st # "fired") =>
              /\ TimersOf(e)'[t].st = "done"
              /\ UNCHANGED <<LIGHTSABER_MODE, BLINKY_MODE, lightsaber_leds,
                             blinky_led1, blinky_led2, music, glow, cntVars>>
      ]_vars

\* A timer has fired and returned although no turn-off sequence of its
\* effect has ever run.
StopFiredWhileOff ==
    \E e \in Effects : \E t \in 1..Len(TimersOf(e)) :
        TimersOf(e)[t].st = "done" /\ nOff[e] = 0

\* C20: a glow thread makes at most one inner step (one write of the LED
\* values) after LIGHTSABER_MODE has been cleared.
GlowStopsWithinOneStep ==
    \A g \in 1..Len(glow) : glow[g].late <= 1

\* C19: no glow thread is running once the ramp-down has begun, and when the
\* turn-off sequence is over the three LEDs are at 0 and stay there until
\* the next activation.
TurnOffOrdering ==
    /\ \A t \in 1..Len(lightsaber_timers) :
          lightsaber_timers[t].st = "ramp" => \A g \in 1..Len(glow) : ~Running(g)
    /\ (~LIGHTSABER_MODE /\ Quiet("ls") /\ nOff["ls"] > 0) =>
          lightsaber_leds = AllLeds(0)

\* C14: a step of a one-shot trigger changes no effect's flag and no timer;
\* the blaster LED is on exactly between an on-write and the off-write that
\* follows it, and a call of blaster_pew_pew that has returned has made ten
\* on-writes and ten off-writes and left the LED off.
OneShotsKeepToThemselves ==
    /\ [][osVars' # osVars =>
            UNCHANGED <<LIGHTSABER_MODE, BLINKY_MODE, lightsaber_timers,
                        blinky_timers, bounce, cntVars>>]_vars
    /\ [](/\ blaster.ons - blaster.offs = (IF blaster_leds THEN 1 ELSE 0)
          /\ (blaster.pc = "idle" /\ presses["blaster"] < OsPresses) =>
                /\ blaster.ons = BLASTER_PULSES
                /\ blaster.offs = BLASTER_PULSES
                /\ ~blaster_leds)

\* blaster_pew_pew has returned after its ten pulses while blinky is on.
BlasterDoneWhileBlinkyOn ==
    /\ blaster.pc = "idle"
    /\ blaster.ons = BLASTER_PULSES
    /\ presses["scream"] < OsPresses
    /\ BLINKY_MODE

\* C15: a turn-off sequence fails only after it has cleared the flag, and
\* the failing step does not touch the flag: it is false after the failure
\* unless a turn-on has begun since the clear, and an effect at rest whose
\* last signal was deactivate is off.
FailedTurnOffLeavesFlagCleared ==
    /\ [][\A e \in Effects :
            failOff'[e] # failOff[e] =>
                /\ Active(e)' = Active(e)
                /\ \E t \in 1..Len(TimersOf(e)) :
                      TurningOff(TimersOf(e)[t]) /\ TimersOf(e)'[t].st = "done"
                /\ nOn[e] = nOff[e] => ~Active(e)'
        ]_vars
    /\ [](\A e \in Effects : (lastSig[e] = "off" /\ Quiet(e)) => ~Active(e))

\* The lightsaber's turn-off has failed in its ramp-down and the effect is
\* at rest, off.
TurnOffFailedInRamp ==
    /\ failOff["ls"] = 1
    /\ lastSig["ls"] = "off"
    /\ Quiet("ls")
    /\ ~LIGHTSABER_MODE
    /\ lightsaber_leds # AllLeds(0)

\* C16: every turn-on sequence of the lightsaber that has begun and whose
\* callback has returned has started its glow thread, also when one of its
\* steps has raised.
TurnOnRunsToCompletion ==
    ls.pc = "idle" => Len(glow) = nOn["ls"]


---------------------------------------------------------------------------
(* The testers' displays *)

\* C11: the last-activation timestamp of a switch is written only when the
\* switch goes from off to on: a step that changes it handles the Changed
\* message of a change to on, and the new value is not earlier than the old.
\* Violated: toggle_action writes the timestamp for every Changed message,
\* the one of a change to off included.
StampOnlyOnActivation ==
    [][\A w \in SwitchIds :
          switches'[w].last_toggle # switches[w].last_toggle
          => /\ changed[w] # <<>>
             /\ Head(changed[w]) = TRUE
             /\ \A old \in switches[w].last_toggle, new \in switches'[w].last_toggle :
                   old <= new]_vars

\* C12: a block that has never been switched on has no timestamp.  Violated
\* in the first state: TimeLabel's stamp defaults to a datetime.
NoStampBeforeActivation ==
    \A b \in ButtonNames : blocks[b].ons = 0 => blocks[b].stamp = {}

\* C17: a display request for an indicator the interface does not have raises
\* no error.  Violated: set_indicator lets the ValueError of list.index out.
UnknownIndicatorIgnored == ~raised

\* C18: once every posted update has been run by the main thread, the updates
\* applied to a switch are the updates posted for it, in the same order.
\* Violated: every switch is created disabled and _do skips a disabled
\* switch, so no posted update is ever applied.
PostedUpdatesApplied ==
    calls = <<>> => \A w \in SwitchIds : applied[w] = posted[w]

---------------------------------------------------------------------------
(* Outputs, ramps and the music channel *)

\* C26: when blinky's flag is false and nothing of blinky is in progress,
\* neither blinky LED is lit or blinking.  Violated: the turn-off sequence
\* ends with blinky_led2.on().
BlinkyOffMeansDark ==
    (~BLINKY_MODE /\ Quiet("bl")) => (blinky_led1 = "off" /\ blinky_led2 = "off")

\* C21: the lightsaber's turn-off sequence stops the music channel and
\* restarts nothing: its audio step leaves the loaded track stopped, whatever
\* track it is, its other steps leave the channel alone, and no step of it
\* touches disco's LEDs or disco's callback.
LightsaberOffNeverResumes ==
    [][\A t \in 1..Len(lightsaber_timers) :
          LET old == lightsaber_timers[t]
              new == lightsaber_timers'[t]
          IN  ((TurningOff(old) \/ (old.st = "fired" /\ LIGHTSABER_MODE)) /\ new # old) =>
                 /\ UNCHANGED dsVars
                 /\ music'.track = music.track
                 /\ music'.playing = (music.playing /\ old.st # "audio")
      ]_vars

\* Disco is on and the lightsaber's turn-off has stopped disco's track.
DiscoOnInSilence ==
    /\ lastSig["disco"] = "on" /\ ds = "idle" /\ disco_leds
    /\ ~LIGHTSABER_MODE /\ Quiet("ls") /\ nOff["ls"] = 1
    /\ music = [track |-> "funk", playing |-> FALSE]

\* C28: at rest (no callback of the lightsaber or of disco running, no timer
\* of the lightsaber alive) with the lightsaber's flag true and disco off,
\* the hum is the track loaded in the music channel and it is playing.
HumWhileLightsaberOn ==
    (LIGHTSABER_MODE /\ Quiet("ls") /\ ds = "idle" /\ ~disco_leds) =>
        music = [track |-> "hum", playing |-> TRUE]

\* C27: once the last signal of an effect has been processed and every timer
\* armed for it has been cancelled or has returned, the effect's flag equals
\* that signal: true after an activate, false after a deactivate.
EffectFollowsSwitch ==
    \A e \in Effects :
        (Quiet(e) /\ lastSig[e] # "none") => (Active(e) <=> lastSig[e] = "on")

\* C22: at 100 steps per LED, the turn-on ramp writes LED 1, then 2, then 3,
\* each with the values 1, 2, ... 100 in turn before the next LED is touched,
\* and ends with the three LEDs at 100; the turn-off ramp writes LED 3, then
\* 2, then 1, each with 100, 99, ... 1, 0, and, when no glow thread has
\* written since the flag was cleared, ends with the three LEDs at 0.  A ramp
\* step writes one LED and nothing else.  (Under SpecRamp the switch is left
\* alone during a transition.)
RampsInOrder ==
    [][/\ (ls.pc = "open_play" /\ ls'.pc # ls.pc) =>
             (ls'.pc = "open_ramp" /\ ls'.k = 1 /\ ls'.i = 1)
       /\ (ls.pc = "open_ramp" /\ ls' # ls) =>
             /\ ls.k \in 1..NLEDS /\ ls.i \in 1..RAMP_STEPS
             /\ lightsaber_leds' = [lightsaber_leds EXCEPT ![ls.k] = ls.i]
             /\ IF ls'.pc = "open_ramp"
                THEN \/ ls'.k = ls.k /\ ls'.i = ls.i + 1
                     \/ ls.i = RAMP_STEPS /\ ls'.k = ls.k + 1 /\ ls'.i = 1
                ELSE /\ ls.k = NLEDS /\ ls.i = RAMP_STEPS
                     /\ lightsaber_leds' = AllLeds(RAMP_STEPS)
       /\ \A t \in 1..Len(lightsaber_timers) :
             LET old == lightsaber_timers[t]
                 new == lightsaber_timers'[t]
             IN  /\ (old.st = "audio" /\ new # old) =>
                       (new.st = "ramp" /\ new.k = NLEDS /\ new.i = RAMP_STEPS)
                 /\ (old.st = "ramp" /\ new # old) =>
                       /\ old.k \in 1..NLEDS /\ old.i \in 0..RAMP_STEPS
                       /\ lightsaber_leds' = [lightsaber_leds EXCEPT ![old.k] = old.i]
                       /\ IF new.st = "ramp"
                          THEN \/ new.k = old.k /\ new.i = old.i - 1
                               \/ old.i = 0 /\ new.k = old.k - 1 /\ new.i = RAMP_STEPS
                          ELSE /\ old.k = 1 /\ old.i = 0
                               /\ (\A g \in 1..Len(glow) : glow[g].late = 0) =>
                                     lightsaber_leds' = AllLeds(0)
      ]_vars

\* One turn-on and one turn-off have run to their ends, the glow thread has
\* exited without a write after the flag was cleared, and the LEDs are at 0.
RampedUpAndDown ==
    /\ nOn["ls"] = 1 /\ nOff["ls"] = 1
    /\ ~LIGHTSABER_MODE /\ Quiet("ls")
    /\ Len(glow) = 1 /\ glow[1].st = "exited" /\ glow[1].late = 0
    /\ lightsaber_leds = AllLeds(0)

\* C23: at 100 steps per LED, every step of a glow thread's loops writes one
\* value between 80 and 100 to the three LEDs alike; the value written goes
\* up by one per step from 80 to 100 and then down by one per step to 80;
\* the pause that follows is a whole number of tenths of a second in 1..20,
\* and the next cycle starts again at 80.
GlowStaysInBand ==
    [][\A g \in 1..Len(glow) :
          LET old == glow[g]
              new == glow'[g]
          IN  new # old =>
                /\ old.st = "check" =>
                      (new.st = "exited" \/ (new.st = "up" /\ new.i = GLOW_FLOOR))
                /\ old.st \in {"up", "down"} =>
                      /\ old.i \in GLOW_FLOOR..RAMP_STEPS
                      /\ lightsaber_leds' = AllLeds(old.i)
                /\ old.st = "up" =>
                      /\ new.i = old.i + 1
                      /\ new.st = (IF new.i = RAMP_STEPS THEN "down" ELSE "up")
                /\ old.st = "down" =>
                      IF old.i > GLOW_FLOOR
                      THEN new.st = "down" /\ new.i = old.i - 1
                      ELSE new.st = "check" /\ new.p \in 1..GLOW_PAUSES
      ]_vars

\* A glow thread of the running lightsaber has made a whole cycle and is in
\* the longest pause.
GlowInLongestPause ==
    /\ LIGHTSABER_MODE
    /\ \E g \in 1..Len(glow) : glow[g].st = "check" /\ glow[g].p = GLOW_PAUSES
    /\ lightsaber_leds = AllLeds(GLOW_FLOOR)

---------------------------------------------------------------------------
(* noisy_tester: hardware to display *)

\* C24: once the app is mounted, and before any input has changed its level,
\* the switch of every input that was active when the tester started shows
\* on.  Violated: the seeding runs at import, when APP is still None.
SeededSwitchesShowOn ==
    (~TEST_MODE /\ main = "run" /\ events = TesterEvents /\ calls = <<>>) =>
        \A pin \in Pins : gpio[pin] => switches[WidgetOf(pin)].value

\* C25: with the app mounted, once the main thread has run every closure
\* handed to it and handled every Changed message, the value of a switch is
\* the last state posted for it, and a switch for which on has been posted
\* has a last-toggle timestamp.  Violated: _do does not assign the value of a
\* disabled switch, and every switch is disabled.
MountedEventReachesSwitch ==
    (APP /\ calls = <<>> /\ \A w \in SwitchIds : changed[w] = <<>>) =>
        \A w \in SwitchIds :
            posted[w] # <<>> =>
                /\ switches[w].value = posted[w][Len(posted[w])]
                /\ (\E i \in 1..Len(posted[w]) : posted[w][i]) =>
                       last_toggle_str(w) # "never"

=============================================================================
